---- MODULE Spec2Model ----
(***************************************************************************)
(* Model of the config store of tab-image-gen-poc: the two tables of       *)
(* shared/schema.ts, the DatabaseStorage methods of server/storage.ts and  *)
(* the text-config routes of registerRoutes.                               *)
(*                                                                         *)
(* Every storage method is an async function: it runs synchronously up to  *)
(* each `await db...`, the statement is executed atomically by the         *)
(* database, and other handlers may run in between.  A call in flight is a *)
(* record whose pc names the statement it is waiting on.  A request's      *)
(* arrival and the execution of its first statement are one step: nothing  *)
(* reads or writes on the call's behalf in between, so delaying the        *)
(* arrival to that moment loses no behaviour of the store.                 *)
(***************************************************************************)
EXTENDS Integers, Sequences, FiniteSets, TLC

VARIABLES
    textPositionConfigs,  \* rows of table text_position_configs
    adContents,           \* rows of table ad_contents
    nextTextId,           \* serial sequence of text_position_configs.id
    nextAdId,             \* serial sequence of ad_contents.id
    now,                  \* the clock read by new Date() and defaultNow()
    calls,                \* the calls in flight
    started,              \* number of calls begun so far
    resp,                 \* the response / settled promise of the latest step
    last,                 \* history: the last write to each (table, name)
    workload,             \* which clients make the calls of this run
    templateImage,        \* CanvasRenderer.templateImage
    ctx,                  \* drawing state of the canvas's 2D context
    surface,              \* the canvas bitmap: the draw operations showing
    promise,              \* the promise loadTemplate returned
    rendered,             \* history: the last renderWithText call
    previous,             \* history: the bitmap before that call
    page,                 \* state of the AdGenerator component
    hasUnsavedChanges,    \* state of the TextPositionEditor component
    loader,               \* the FontLoader and the promise of loadFonts
    query,                \* useQuery(['/api/text-config/default'])
    mutations,            \* bodies of saveConfigMutation in flight
    effects,              \* effects scheduled and not yet run
    edits,                \* number of layout edits so far
    posted                \* history: the last config handed to onSave

storeVars == <<textPositionConfigs, adContents, nextTextId, nextAdId, now, calls,
               started, resp, last, workload>>

canvasVars == <<templateImage, ctx, surface, promise, rendered, previous>>

clientVars == <<page, hasUnsavedChanges, loader, query, mutations, effects,
                edits, posted>>

vars == <<storeVars, canvasVars, clientVars>>

\* ------------------------------------------------------------------ bounds
\* calls made in a run on one table, and in a run that mixes both tables
MaxCalls == 3
MaxMixedCalls == 2
\* layout edits the operator makes in a run of the generator page
MaxEdits == 2

Names == {"default", "promo"}

\* ------------------------------------------------------------ schema (zod)
FieldKeys == {"raceName", "prizeAmount", "projectedPool", "day", "numberOfRaces"}

PositionKeys ==
    {"bottom", "left", "center", "alignment", "fontFamily", "fontSize", "color"}

HexDigits ==
    {"0", "1", "2", "3", "4", "5", "6", "7", "8", "9",
     "a", "b", "c", "d", "e", "f", "A", "B", "C", "D", "E", "F"}

\* /^#[0-9a-fA-F]{6}$/ on a string given as its sequence of characters
colorRegex(s) ==
    /\ Len(s) = 7
    /\ s[1] = "#"
    /\ \A i \in 2..7 : s[i] \in HexDigits

\* faulty variant: the upper limit is missing
fontSizeNoMax(n) == n >= 8

\* z.number().min(8).max(300)
fontSizeSchema(n) == n >= 8 /\ n <= 300

textPositionSchema(p) ==
    /\ {"bottom", "alignment", "fontFamily", "fontSize", "color"} \subseteq DOMAIN p
    /\ p.bottom >= 0
    /\ ("left" \in DOMAIN p => p.left >= 0)
    /\ ("center" \in DOMAIN p => p.center >= 0)
    /\ p.alignment \in {"left", "center"}
    /\ fontSizeSchema(p.fontSize)
    /\ colorRegex(p.color)

textConfigSchema(body) ==
    /\ FieldKeys \subseteq DOMAIN body
    /\ \A f \in FieldKeys : textPositionSchema(body[f])

\* faulty variant: req.body is saved as it came
requestBody(body) == body

\* validation.data: zod objects strip the keys the schema does not name
safeParseData(body) ==
    [f \in FieldKeys |->
        [k \in (DOMAIN body[f]) \cap PositionKeys |-> body[f][k]]]

adContentSchema(c) ==
    /\ FieldKeys \subseteq DOMAIN c
    /\ \A f \in FieldKeys : Len(c[f]) >= 1

\* ---------------------------------------------------------------- payloads
Green == <<"#", "1", "f", "d", "8", "7", "b">>
White == <<"#", "f", "f", "f", "f", "f", "f">>

\* faulty variant: the race name is seeded at 48px in white
defaultConfigEarlier ==
    [raceName |->
        [bottom |-> 200, left |-> 100, alignment |-> "left",
         fontFamily |-> "Montserrat-BoldItalic", fontSize |-> 48, color |-> White],
     prizeAmount |->
        [bottom |-> 600, left |-> 200, alignment |-> "left",
         fontFamily |-> "Montserrat-Black", fontSize |-> 120, color |-> White],
     projectedPool |->
        [bottom |-> 700, left |-> 540, alignment |-> "left",
         fontFamily |-> "Montserrat-BoldItalic", fontSize |-> 48, color |-> Green],
     day |->
        [bottom |-> 800, left |-> 700, alignment |-> "left",
         fontFamily |-> "Montserrat-BoldItalic", fontSize |-> 48, color |-> Green],
     numberOfRaces |->
        [bottom |-> 200, center |-> 1340, alignment |-> "center",
         fontFamily |-> "Montserrat-Bold", fontSize |-> 80, color |-> Green]]

\* the literal of createDefaultConfig
defaultConfig ==
    [raceName |->
        [bottom |-> 200, left |-> 100, alignment |-> "left",
         fontFamily |-> "Montserrat-BoldItalic", fontSize |-> 60, color |-> Green],
     prizeAmount |->
        [bottom |-> 600, left |-> 200, alignment |-> "left",
         fontFamily |-> "Montserrat-Black", fontSize |-> 120, color |-> White],
     projectedPool |->
        [bottom |-> 700, left |-> 540, alignment |-> "left",
         fontFamily |-> "Montserrat-BoldItalic", fontSize |-> 48, color |-> Green],
     day |->
        [bottom |-> 800, left |-> 700, alignment |-> "left",
         fontFamily |-> "Montserrat-BoldItalic", fontSize |-> 48, color |-> Green],
     numberOfRaces |->
        [bottom |-> 200, center |-> 1340, alignment |-> "center",
         fontFamily |-> "Montserrat-Bold", fontSize |-> 80, color |-> Green]]

defaultContent ==
    [raceName |-> "Emerald Stakes", prizeAmount |-> "50,000",
     projectedPool |-> "125,000", day |-> "SATURDAY", numberOfRaces |-> "8"]

\* request bodies a client may POST to /api/text-config/:name
ConfigA == [defaultConfig EXCEPT !.raceName.fontSize = 72]
ConfigB == [defaultConfig EXCEPT !.raceName.fontSize = 90]
ConfigTooSmall == [defaultConfig EXCEPT !.day.fontSize = 7]
ConfigTooBig == [defaultConfig EXCEPT !.prizeAmount.fontSize = 301]
ConfigShortColor ==
    [defaultConfig EXCEPT !.raceName.color = <<"#", "f", "f", "f">>]
ConfigNamedColor ==
    [defaultConfig EXCEPT !.numberOfRaces.color = <<"g", "r", "e", "e", "n", "!", "!">>]

\* the editor's alignment select changed on a record that has only left
ConfigCenterNoCenter == [defaultConfig EXCEPT !.raceName.alignment = "center"]

\* a body without one of the five keys, and one with keys the schema does
\* not name
ConfigMissingKey == [f \in FieldKeys \ {"day"} |-> ConfigA[f]]

ConfigExtraKeys ==
    [(("watermark" :> "on") @@ ConfigA) EXCEPT !.day = ("rotate" :> 90) @@ @]

PostBodies ==
    {ConfigA, ConfigB, ConfigTooSmall, ConfigTooBig, ConfigShortColor,
     ConfigNamedColor}

\* request bodies of the generator page and of clients built on its config
EditorBodies == {ConfigCenterNoCenter, ConfigMissingKey, ConfigExtraKeys}

\* contents a caller may hand to saveAdContent
ContentA ==
    [raceName |-> "Spring Classic", prizeAmount |-> "10,000",
     projectedPool |-> "20,000", day |-> "FRIDAY", numberOfRaces |-> "6"]
ContentEmpty == [ContentA EXCEPT !.raceName = ""]

Contents == {ContentA, ContentEmpty}

\* ------------------------------------------------------------------ values
\* undefined / no value
Null == [null |-> TRUE]

Tables == {"text", "ad"}

\* a write of the history: the payload written, by a save or by get's seeding,
\* whether the call ran with no other write to the name between its first
\* select and its write, and the write before it
NoPrev == [payload |-> Null, by |-> "none", clean |-> FALSE]

NoWrite == [payload |-> Null, by |-> "none", clean |-> FALSE, prev |-> NoPrev]

NoResponse ==
    [tbl |-> "none", op |-> "none", name |-> "", status |-> "none",
     body |-> Null, req |-> Null, seeded |-> FALSE, seen |-> NoWrite,
     quiet |-> FALSE, clean |-> FALSE, threw |-> FALSE]

NewCall(tbl, op, name, payload, pc) ==
    [id |-> started + 1, tbl |-> tbl, op |-> op, name |-> name,
     payload |-> payload, pc |-> pc, seeding |-> FALSE, stamp |-> 0,
     clean |-> TRUE]

\* the calls in flight with call c added, replaced or removed
With(c) == [j \in DOMAIN calls \cup {c.id} |-> IF j = c.id THEN c ELSE calls[j]]

Without(c) == [j \in DOMAIN calls \ {c.id} |-> calls[j]]

\* no other call on the same table and name is between its first select and
\* its response
Quiet(c) ==
    \A j \in DOMAIN calls \ {c.id} :
        ~(calls[j].tbl = c.tbl /\ calls[j].name = c.name)

Response(c, status, body) ==
    [tbl |-> c.tbl, op |-> c.op, name |-> c.name,
     status |-> status, body |-> body, req |-> c.payload,
     seeded |-> c.seeding,
     seen |-> IF c.name \in Names THEN last[c.tbl][c.name] ELSE NoWrite,
     quiet |-> Quiet(c), clean |-> c.clean, threw |-> FALSE]

\* history of a write statement of call c, and its effect on the calls that
\* overlap it
Disturb(d, c) ==
    IF d.tbl = c.tbl /\ d.name = c.name
    THEN [d EXCEPT !.clean = FALSE]
    ELSE d

Written(c) ==
    [last EXCEPT ![c.tbl][c.name] =
        [payload |-> c.payload,
         by |-> IF c.seeding THEN "seed" ELSE "save",
         clean |-> c.clean,
         prev |-> [payload |-> @.payload, by |-> @.by, clean |-> @.clean]]]

\* ------------------------------------------------------------- statements
\* db.select().from(table).where(eq(table.name, name))
selectByName(table, name) == {r \in table : r.name = name}

\* .insert(textPositionConfigs).values({name, config}).returning()
textInsertRow(name, config) ==
    [id |-> nextTextId, name |-> name, config |-> config,
     createdAt |-> now, updatedAt |-> now]

\* faulty variants of the update: the payload is not replaced; updatedAt
\* is not set
textUpdateRowKeepsConfig(r, config, stamp) == [r EXCEPT !.updatedAt = stamp]

textUpdateRowNoBump(r, config, stamp) == [r EXCEPT !.config = config]

\* .update(textPositionConfigs).set({config, updatedAt}).where(name = name)
textUpdateRow(r, config, stamp) ==
    [r EXCEPT !.config = config, !.updatedAt = stamp]

\* .insert(adContents).values({name, raceName, ...}).returning()
adInsertRow(name, content) ==
    [id |-> nextAdId, name |-> name,
     raceName |-> content.raceName, prizeAmount |-> content.prizeAmount,
     projectedPool |-> content.projectedPool, day |-> content.day,
     numberOfRaces |-> content.numberOfRaces,
     createdAt |-> now, updatedAt |-> now]

\* .update(adContents).set({raceName, ..., updatedAt}).where(name = name)
adUpdateRow(r, content, stamp) ==
    [r EXCEPT !.raceName = content.raceName,
              !.prizeAmount = content.prizeAmount,
              !.projectedPool = content.projectedPool,
              !.day = content.day,
              !.numberOfRaces = content.numberOfRaces,
              !.updatedAt = stamp]

\* faulty variant: the column read does not exist
recordConfigUndefined(record) == Null

\* return record.config as TextConfig
recordConfig(record) == record.config

\* faulty variant: two columns swapped
recordContentSwapped(record) ==
    [raceName |-> record.raceName, prizeAmount |-> record.projectedPool,
     projectedPool |-> record.prizeAmount, day |-> record.day,
     numberOfRaces |-> record.numberOfRaces]

\* the object getAdContent builds from a row
recordContent(record) ==
    [raceName |-> record.raceName, prizeAmount |-> record.prizeAmount,
     projectedPool |-> record.projectedPool, day |-> record.day,
     numberOfRaces |-> record.numberOfRaces]

\* GET /api/text-config/:name, after the storage call returned config
getRouteStatus(config) == IF config = Null THEN "404" ELSE "200"

\* ------------------------------------------------- CanvasRenderer (client)
\* <canvas width={1920} height={1080}>
CanvasWidth == 1920
CanvasHeight == 1080

\* an optional property of a JS object: <<v>> when present, <<>> (undefined)
\* when absent
Prop(obj, key) == IF key \in DOMAIN obj THEN <<obj[key]>> ELSE <<>>

\* paints: a colour is its sequence of characters, as in the schema
FallbackGreen == <<"#", "2", "2", "c", "5", "5", "e">>
FallbackGradient == <<"linearGradient", "#16a34a", "#22c55e">>
WatermarkWhite == <<"rgba(255, 255, 255, 0.1)">>

\* the font families of the CSS font strings the renderer builds
FontStack == <<"Montserrat,", "Arial,", "sans-serif">>

\* canvas.getContext('2d') of a new canvas: the drawing state and the bitmap,
\* the bitmap being the draw operations that still show on it
newCanvas ==
    [ctx |-> [fillStyle |-> <<"#", "0", "0", "0", "0", "0", "0">>,
              font |-> <<"10px", "sans-serif">>,
              textAlign |-> "start", textBaseline |-> "alphabetic"],
     surface |-> <<>>,
     raised |-> FALSE]

\* a fillStyle the context accepts: #rgb, #rgba, #rrggbb, #rrggbbaa, or one of
\* the renderer's own paints; any other assignment is ignored
cssColor(v) ==
    \/ v \in {FallbackGreen, FallbackGradient, WatermarkWhite}
    \/ /\ Len(v) \in {4, 5, 7, 9}
       /\ v[1] = "#"
       /\ \A i \in 2..Len(v) : v[i] \in HexDigits

setFillStyle(g, v) == IF cssColor(v) THEN [g EXCEPT !.ctx.fillStyle = v] ELSE g

\* ctx.textAlign = v: values outside CanvasTextAlign are ignored
setTextAlign(g, v) ==
    IF v \in {"start", "end", "left", "right", "center"}
    THEN [g EXCEPT !.ctx.textAlign = v]
    ELSE g

\* a paint that hides what is under it
opaque(style) == style # WatermarkWhite /\ Len(style) \notin {5, 9}

wholeCanvas(x, y, w, h) ==
    x = 0 /\ y = 0 /\ w = CanvasWidth /\ h = CanvasHeight

\* ctx.fillRect(x, y, w, h)
fillRect(g, x, y, w, h) ==
    LET rect == [op |-> "fillRect", x |-> x, y |-> y, w |-> w, h |-> h,
                 fillStyle |-> g.ctx.fillStyle]
    IN  [g EXCEPT !.surface =
            IF wholeCanvas(x, y, w, h) /\ opaque(g.ctx.fillStyle)
            THEN <<rect>>
            ELSE Append(@, rect)]

\* ctx.clearRect(x, y, w, h)
clearRect(g, x, y, w, h) ==
    [g EXCEPT !.surface =
        IF wholeCanvas(x, y, w, h)
        THEN <<>>
        ELSE Append(@, [op |-> "clearRect", x |-> x, y |-> y, w |-> w, h |-> h])]

\* ctx.drawImage(image, x, y, w, h)
drawImage(g, image, x, y, w, h) ==
    [g EXCEPT !.surface =
        Append(@, [op |-> "drawImage", image |-> image,
                   x |-> x, y |-> y, w |-> w, h |-> h])]

\* ctx.fillText(text, x, y) with x an optional number: a call whose x is
\* undefined (NaN) returns without drawing
fillText(g, text, x, y) ==
    IF x = <<>>
    THEN g
    ELSE [g EXCEPT !.surface =
            Append(@, [op |-> "fillText", text |-> text, x |-> x[1], y |-> y,
                       fillStyle |-> g.ctx.fillStyle, font |-> g.ctx.font,
                       textAlign |-> g.ctx.textAlign,
                       textBaseline |-> g.ctx.textBaseline])]

\* faulty variant: Montserrat-Black is served by the bold face
getFontStringBlackAsBold(fontFamily, fontSize) ==
    LET px == ToString(fontSize) \o "px"
    IN  CASE fontFamily = "Montserrat-Bold" -> <<"bold", px>> \o FontStack
          [] fontFamily = "Montserrat-BoldItalic" ->
                <<"italic", "bold", px>> \o FontStack
          [] fontFamily = "Montserrat-Black" -> <<"bold", px>> \o FontStack
          [] OTHER -> <<px>> \o FontStack

\* the CSS font string, as its sequence of words
getFontString(fontFamily, fontSize) ==
    LET px == ToString(fontSize) \o "px"
    IN  CASE fontFamily = "Montserrat-Bold" -> <<"bold", px>> \o FontStack
          [] fontFamily = "Montserrat-BoldItalic" ->
                <<"italic", "bold", px>> \o FontStack
          [] fontFamily = "Montserrat-Black" -> <<"900", px>> \o FontStack
          [] fontFamily = "Montserrat-Regular" -> <<px>> \o FontStack
          [] OTHER -> <<px>> \o FontStack

createFallbackTemplate(g) ==
    LET g1 == fillRect(setFillStyle(g, FallbackGreen),
                       0, 0, CanvasWidth, CanvasHeight)
        g2 == fillRect(setFillStyle(g1, FallbackGradient),
                       0, 0, CanvasWidth, CanvasHeight)
        g3 == setTextAlign(
                  [setFillStyle(g2, WatermarkWhite) EXCEPT
                      !.ctx.font = <<"bold", "120px">> \o FontStack],
                  "center")
    IN  fillText(g3, "TEMPLATE", <<CanvasWidth \div 2>>, CanvasHeight \div 2)

\* faulty variant: the template is drawn over the previous frame
renderTemplateNoClear(g, image) ==
    IF image # Null
    THEN drawImage(g, image, 0, 0, CanvasWidth, CanvasHeight)
    ELSE createFallbackTemplate(g)

renderTemplate(g, image) ==
    IF image # Null
    THEN drawImage(clearRect(g, 0, 0, CanvasWidth, CanvasHeight),
                   image, 0, 0, CanvasWidth, CanvasHeight)
    ELSE createFallbackTemplate(g)

\* faulty variant: the anchor is always the left coordinate
anchorAlwaysLeft(config) == Prop(config, "left")

\* const x = config.alignment === "center" ? config.center : config.left
anchor(config) ==
    IF config.alignment = "center"
    THEN Prop(config, "center")
    ELSE Prop(config, "left")

\* renderTextField(text, config) with config an optional object: reading a
\* property of undefined raises, and nothing after a raise is executed
renderTextField(g, text, config) ==
    IF g.raised \/ config = <<>>
    THEN [g EXCEPT !.raised = TRUE]
    ELSE LET c == config[1]
             g1 == setFillStyle(g, c.color)
             g2 == [g1 EXCEPT !.ctx.font = getFontString(c.fontFamily, c.fontSize)]
             g3 == setTextAlign(g2, c.alignment)
         IN  fillText(g3, text, anchor(c), c.bottom)

\* the default renderWithText falls back to when it is given no config
rendererDefaultConfig ==
    [raceName |->
        [bottom |-> 200, left |-> 100, alignment |-> "left",
         fontFamily |-> "Montserrat-BoldItalic", fontSize |-> 60, color |-> Green],
     prizeAmount |->
        [bottom |-> 600, left |-> 200, alignment |-> "left",
         fontFamily |-> "Montserrat-Black", fontSize |-> 120, color |-> White],
     projectedPool |->
        [bottom |-> 700, left |-> 540, alignment |-> "left",
         fontFamily |-> "Montserrat-BoldItalic", fontSize |-> 48, color |-> Green],
     day |->
        [bottom |-> 800, left |-> 700, alignment |-> "left",
         fontFamily |-> "Montserrat-BoldItalic", fontSize |-> 48, color |-> Green],
     numberOfRaces |->
        [bottom |-> 200, center |-> 1340, alignment |-> "center",
         fontFamily |-> "Montserrat-Bold", fontSize |-> 80, color |-> Green]]

\* the literal of the editor's resetToDefaults
resetDefaultConfig ==
    [raceName |->
        [bottom |-> 200, left |-> 100, alignment |-> "left",
         fontFamily |-> "Montserrat-BoldItalic", fontSize |-> 60, color |-> Green],
     prizeAmount |->
        [bottom |-> 600, left |-> 200, alignment |-> "left",
         fontFamily |-> "Montserrat-Black", fontSize |-> 120, color |-> White],
     projectedPool |->
        [bottom |-> 700, left |-> 540, alignment |-> "left",
         fontFamily |-> "Montserrat-BoldItalic", fontSize |-> 48, color |-> Green],
     day |->
        [bottom |-> 800, left |-> 700, alignment |-> "left",
         fontFamily |-> "Montserrat-BoldItalic", fontSize |-> 48, color |-> Green],
     numberOfRaces |->
        [bottom |-> 200, center |-> 1340, alignment |-> "center",
         fontFamily |-> "Montserrat-Bold", fontSize |-> 80, color |-> Green]]

\* the order in which renderWithText draws the fields
FieldOrder == <<"raceName", "prizeAmount", "projectedPool", "day", "numberOfRaces">>

\* faulty variant: the projected pool is drawn without its "$"
fieldTextBarePool(formData, f) ==
    IF f = "prizeAmount" THEN "$" \o formData[f] ELSE formData[f]

\* the string drawn for a field
fieldText(formData, f) ==
    IF f \in {"prizeAmount", "projectedPool"}
    THEN "$" \o formData[f]
    ELSE formData[f]

renderWithText(g, image, formData, textConfig) ==
    LET g0 == [renderTemplate([g EXCEPT !.raised = FALSE], image)
                  EXCEPT !.ctx.textBaseline = "bottom"]
        config == IF textConfig = Null THEN rendererDefaultConfig ELSE textConfig
        g1 == renderTextField(g0, fieldText(formData, FieldOrder[1]),
                              Prop(config, FieldOrder[1]))
        g2 == renderTextField(g1, fieldText(formData, FieldOrder[2]),
                              Prop(config, FieldOrder[2]))
        g3 == renderTextField(g2, fieldText(formData, FieldOrder[3]),
                              Prop(config, FieldOrder[3]))
        g4 == renderTextField(g3, fieldText(formData, FieldOrder[4]),
                              Prop(config, FieldOrder[4]))
    IN  renderTextField(g4, fieldText(formData, FieldOrder[5]),
                        Prop(config, FieldOrder[5]))

\* new Image() once it has loaded imagePath
TemplateImage == [src |-> "/template.png"]

\* history of renderWithText: no call yet
NoRender ==
    [called |-> FALSE, formData |-> Null, textConfig |-> Null,
     repeat |-> FALSE, raised |-> FALSE]

\* ---------------------------------------------------- AdGenerator (client)
Status(text, type) == [text |-> text, type |-> type]

\* the component's state at mount: useState initial values and the form's
\* defaultValues
newPage ==
    [status |-> Status("Initializing...", "loading"),
     textConfig |-> Null, canvasRenderer |-> FALSE, fontLoader |-> FALSE,
     formData |-> defaultContent, init |-> "mount"]

\* new FontLoader()
newFontLoader == [fontsLoaded |-> FALSE, promise |-> "idle", path |-> "none"]

\* the ways through loadFonts: no FontFace in window; verifyFontLoading
\* measures the text; it gets no 2D context; it throws
FontPaths == {"noFontFace", "verified", "noContext", "verifyThrew"}

\* loadFonts() up to its await, or to its end when there is none
loadFonts(path) ==
    IF path = "noFontFace"
    THEN [fontsLoaded |-> TRUE, promise |-> "resolved", path |-> path]
    ELSE [fontsLoaded |-> FALSE, promise |-> "pending", path |-> path]

\* faulty variant: the catch passes the error on
loadFontsResumeRethrows(l) ==
    IF l.path = "verifyThrew"
    THEN [l EXCEPT !.promise = "rejected"]
    ELSE [l EXCEPT !.fontsLoaded = TRUE, !.promise = "resolved"]

\* loadFonts() after await this.verifyFontLoading(), in the try and in the
\* catch
loadFontsResume(l) == [l EXCEPT !.fontsLoaded = TRUE, !.promise = "resolved"]

\* faulty variant: the render effect does not depend on the layout config
renderEffectDepsNoConfig == {"formData", "canvasRenderer", "fontLoader"}

\* the dependency array of the render effect
renderEffectDeps == {"formData", "canvasRenderer", "fontLoader", "textConfig"}

\* the dependency array of the config load effect
configEffectDeps == {"configData"}

\* the effects a commit schedules when the named values changed
Triggered(changed) ==
    {e \in {"config", "render"} :
        (IF e = "config" THEN configEffectDeps ELSE renderEffectDeps)
            \cap changed # {}}

\* the font families the first editor offers, and those the second offers
FONT_OPTIONS ==
    {"Montserrat-Regular", "Montserrat-Bold", "Montserrat-BoldItalic",
     "Montserrat-Black", "Montserrat-BlackItalic"}
fontOptions ==
    {"Montserrat-Bold", "Montserrat-BoldItalic", "Montserrat-Black",
     "Montserrat-Regular"}

\* the case labels of CanvasRenderer.getFontString
fontCases ==
    {"Montserrat-Bold", "Montserrat-BoldItalic", "Montserrat-Black",
     "Montserrat-Regular"}

\* the edits the operator makes with the editor's controls: a font size, the
\* alignment select, and the font select set to a family that only the first
\* editor offers
Edits ==
    {[fieldKey |-> "raceName", change |-> [fontSize |-> 72]],
     [fieldKey |-> "day", change |-> [alignment |-> "right"]]}
        \cup {[fieldKey |-> "day", change |-> [fontFamily |-> f]] :
                  f \in FONT_OPTIONS \ fontOptions}

\* updatedConfig of handleFieldChange: {...config, [fieldKey]:
\* {...config[fieldKey], [property]: value}}
handleFieldChange(config, fieldKey, change) ==
    [config EXCEPT ![fieldKey] = change @@ @]

\* disabled={status.type === "loading"} of the download button
downloadDisabled(status) == status.type = "loading"

\* ------------------------------------------------------------------- Init
Init ==
    /\ textPositionConfigs = {}
    /\ adContents = {}
    /\ nextTextId = 1
    /\ nextAdId = 1
    /\ now = 0
    /\ calls = <<>>
    /\ started = 0
    /\ resp = NoResponse
    /\ last = [t \in Tables |-> [n \in Names |-> NoWrite]]
    /\ workload \in {"text", "ad", "mixed", "editor"}
    /\ templateImage = Null
    /\ ctx = newCanvas.ctx
    /\ surface = newCanvas.surface
    /\ promise = "idle"
    /\ rendered = NoRender
    /\ previous = <<>>
    /\ page = newPage
    /\ hasUnsavedChanges = FALSE
    /\ loader = newFontLoader
    /\ query = [data |-> Null, state |-> "fetching"]
    /\ mutations = {}
    /\ effects = {}
    /\ edits = 0
    /\ posted = Null

\* a request arrives: the clock has moved on since the one before
Arrive(tbl) ==
    /\ \/ workload = tbl /\ started < MaxCalls
       \/ workload = "mixed" /\ started < MaxMixedCalls
       \/ workload = "editor" /\ tbl = "text" /\ started < MaxCalls
    /\ started' = started + 1
    /\ now' = now + 1
    /\ UNCHANGED workload

\* the call goes on to await its next statement
Await(c) ==
    /\ calls' = With(c)
    /\ resp' = NoResponse

\* the call is over: its caller gets status and body
Reply(c, status, body) ==
    /\ resp' = Response(c, status, body)
    /\ calls' = Without(c)

\* faulty variant: the route's catch answers 400
ThrowAsBadRequest(c) ==
    /\ resp' = [Response(c, IF c.tbl = "text" THEN "400" ELSE "rejected", Null)
                  EXCEPT !.seen = NoWrite, !.threw = TRUE]
    /\ calls' = Without(c)

\* the awaited statement throws (connection lost, I/O failure): the route's
\* catch answers 500, a direct caller's promise rejects
Throw(c) ==
    /\ resp' = [Response(c, IF c.tbl = "text" THEN "500" ELSE "rejected", Null)
                  EXCEPT !.seen = NoWrite, !.threw = TRUE]
    /\ calls' = Without(c)

\* --------------------------------------------------------- DatabaseStorage
\* the branch of saveTextPositionConfig / saveAdContent on existingRecord;
\* new Date() is read when the update statement is built
saveBranch(c, existing, clock) ==
    IF existing # {}
    THEN [c EXCEPT !.pc = "update", !.stamp = clock]
    ELSE [c EXCEPT !.pc = "insert"]

\* faulty variant: the default is returned but the save is handed the first of the
\* accepted request bodies instead
createDefaultOther(c, default) ==
    [c EXCEPT !.pc = "save_select", !.seeding = TRUE,
              !.payload = IF c.tbl = "text" THEN ConfigA ELSE ContentA]

\* createDefaultConfig / createDefaultContent: call save with the default
createDefault(c, default) ==
    [c EXCEPT !.pc = "save_select", !.seeding = TRUE, !.payload = default]

\* what the caller of the save gets: createDefault... returns the default
\* to the caller of get, a save returns the record the statement returned
SaveReply(c, returning) ==
    /\ \/ /\ c.seeding
          /\ resp' = Response(c, IF c.tbl = "text"
                                 THEN getRouteStatus(c.payload)
                                 ELSE "fulfilled", c.payload)
       \/ /\ ~c.seeding
          /\ \E record \in returning :
               resp' = Response(c, IF c.tbl = "text" THEN "200"
                                   ELSE "fulfilled", record)
    /\ calls' = [j \in DOMAIN calls \ {c.id} |-> Disturb(calls[j], c)]
    /\ last' = Written(c)

\* ------------------------------------------------------------------ routes
\* faulty variant: the default is created whether or not a record was found
GetTextConfigAlwaysSeeds(name) ==
    /\ Arrive("text")
    /\ LET c == NewCall("text", "get", name, Null, "get_select")
       IN  \/ Await(createDefault(c, defaultConfig))
           \/ Throw(c)
    /\ UNCHANGED <<textPositionConfigs, adContents, nextTextId, nextAdId, last>>
    /\ UNCHANGED <<canvasVars, clientVars>>

\* app.get("/api/text-config/:name") up to the select of
\* getTextPositionConfig: record.config, or on to createDefaultConfig
GetTextConfig(name) ==
    /\ Arrive("text")
    /\ LET c == NewCall("text", "get", name, Null, "get_select")
           found == selectByName(textPositionConfigs, name)
       IN  \/ found = {} /\ Await(createDefault(c, defaultConfig))
           \/ \E record \in found :
                Reply(c, getRouteStatus(recordConfig(record)),
                      recordConfig(record))
           \/ Throw(c)
    /\ UNCHANGED <<textPositionConfigs, adContents, nextTextId, nextAdId, last>>
    /\ UNCHANGED <<canvasVars, clientVars>>

\* app.post("/api/text-config/:name"): safeParse, then 400 or the select of
\* saveTextPositionConfig
PostTextConfig(name, body) ==
    /\ Arrive("text")
    /\ IF ~textConfigSchema(body)
       THEN /\ resp' = [Response(NewCall("text", "save", name, body, "validate"),
                                 "400", Null) EXCEPT !.seen = NoWrite]
            /\ UNCHANGED calls
       ELSE LET c == NewCall("text", "save", name, safeParseData(body),
                             "save_select")
            IN  \/ Await(saveBranch(
                      c, selectByName(textPositionConfigs, name), now'))
                \/ Throw(c)
    /\ UNCHANGED <<textPositionConfigs, adContents, nextTextId, nextAdId, last>>
    /\ UNCHANGED <<canvasVars, clientVars>>

\* app.get("/api/text-configs") and listTextPositionConfigs
ListTextConfigs ==
    /\ Arrive("text")
    /\ LET c == NewCall("text", "list", "", Null, "list_select")
       IN  \/ Reply(c, "200", textPositionConfigs)
           \/ Throw(c)
    /\ UNCHANGED <<textPositionConfigs, adContents, nextTextId, nextAdId, last>>
    /\ UNCHANGED <<canvasVars, clientVars>>

\* createDefaultConfig -> saveTextPositionConfig: the select
saveTextPositionConfigSelect(c) ==
    /\ c.tbl = "text" /\ c.pc = "save_select"
    /\ Await(saveBranch(c, selectByName(textPositionConfigs, c.name), now))
    /\ UNCHANGED <<textPositionConfigs, adContents, nextTextId, nextAdId,
                   now, started, last, workload>>
    /\ UNCHANGED <<canvasVars, clientVars>>

\* faulty variant: the upsert is a delete followed by the insert
saveTextPositionConfigReplace(c) ==
    /\ c.tbl = "text" /\ c.pc = "update"
    /\ textPositionConfigs' =
         textPositionConfigs \ selectByName(textPositionConfigs, c.name)
    /\ Await([c EXCEPT !.pc = "insert"])
    /\ UNCHANGED <<adContents, nextTextId, nextAdId, now, started, last, workload>>
    /\ UNCHANGED <<canvasVars, clientVars>>

\* saveTextPositionConfig: the update of the existing record
saveTextPositionConfigUpdate(c) ==
    /\ c.tbl = "text" /\ c.pc = "update"
    /\ textPositionConfigs' =
         {IF r.name = c.name THEN textUpdateRow(r, c.payload, c.stamp) ELSE r :
            r \in textPositionConfigs}
    /\ SaveReply(c, selectByName(textPositionConfigs', c.name))
    /\ UNCHANGED <<adContents, nextTextId, nextAdId, now, started, workload>>
    /\ UNCHANGED <<canvasVars, clientVars>>

\* saveTextPositionConfig: the insert of a new record
saveTextPositionConfigInsert(c) ==
    /\ c.tbl = "text" /\ c.pc = "insert"
    /\ textPositionConfigs' =
         textPositionConfigs \cup {textInsertRow(c.name, c.payload)}
    /\ nextTextId' = nextTextId + 1
    /\ SaveReply(c, {textInsertRow(c.name, c.payload)})
    /\ UNCHANGED <<adContents, nextAdId, now, started, workload>>
    /\ UNCHANGED <<canvasVars, clientVars>>

\* a call of storage.getAdContent(name) up to its select: the row's five
\* fields, or on to createDefaultContent
CallGetAdContent(name) ==
    /\ Arrive("ad")
    /\ LET c == NewCall("ad", "get", name, Null, "get_select")
           found == selectByName(adContents, name)
       IN  \/ found = {} /\ Await(createDefault(c, defaultContent))
           \/ \E record \in found :
                Reply(c, "fulfilled", recordContent(record))
           \/ Throw(c)
    /\ UNCHANGED <<textPositionConfigs, adContents, nextTextId, nextAdId, last>>
    /\ UNCHANGED <<canvasVars, clientVars>>

\* a call of storage.saveAdContent(name, content) up to its select
CallSaveAdContent(name, content) ==
    /\ Arrive("ad")
    /\ LET c == NewCall("ad", "save", name, content, "save_select")
       IN  \/ Await(saveBranch(c, selectByName(adContents, name), now'))
           \/ Throw(c)
    /\ UNCHANGED <<textPositionConfigs, adContents, nextTextId, nextAdId, last>>
    /\ UNCHANGED <<canvasVars, clientVars>>

\* createDefaultContent -> saveAdContent: the select
saveAdContentSelect(c) ==
    /\ c.tbl = "ad" /\ c.pc = "save_select"
    /\ Await(saveBranch(c, selectByName(adContents, c.name), now))
    /\ UNCHANGED <<textPositionConfigs, adContents, nextTextId, nextAdId,
                   now, started, last, workload>>
    /\ UNCHANGED <<canvasVars, clientVars>>

\* faulty variant: the update has no where clause
saveAdContentUpdateAll(c) ==
    /\ c.tbl = "ad" /\ c.pc = "update"
    /\ adContents' = {adUpdateRow(r, c.payload, c.stamp) : r \in adContents}
    /\ SaveReply(c, selectByName(adContents', c.name))
    /\ UNCHANGED <<textPositionConfigs, nextTextId, nextAdId, now, started, workload>>
    /\ UNCHANGED <<canvasVars, clientVars>>

\* saveAdContent: the update of the existing record
saveAdContentUpdate(c) ==
    /\ c.tbl = "ad" /\ c.pc = "update"
    /\ adContents' =
         {IF r.name = c.name THEN adUpdateRow(r, c.payload, c.stamp) ELSE r :
            r \in adContents}
    /\ SaveReply(c, selectByName(adContents', c.name))
    /\ UNCHANGED <<textPositionConfigs, nextTextId, nextAdId, now, started, workload>>
    /\ UNCHANGED <<canvasVars, clientVars>>

\* saveAdContent: the insert of a new record
saveAdContentInsert(c) ==
    /\ c.tbl = "ad" /\ c.pc = "insert"
    /\ adContents' = adContents \cup {adInsertRow(c.name, c.payload)}
    /\ nextAdId' = nextAdId + 1
    /\ SaveReply(c, {adInsertRow(c.name, c.payload)})
    /\ UNCHANGED <<textPositionConfigs, nextTextId, now, started, workload>>
    /\ UNCHANGED <<canvasVars, clientVars>>

\* the statement a call in flight awaits throws
dbError(c) ==
    /\ Throw(c)
    /\ UNCHANGED <<textPositionConfigs, adContents, nextTextId, nextAdId,
                   now, started, last, workload>>
    /\ UNCHANGED <<canvasVars, clientVars>>

\* the generator page reads and saves only the config named "default"
ClientNames == IF workload = "editor" THEN {"default"} ELSE Names

ClientBodies == IF workload = "editor" THEN EditorBodies ELSE PostBodies

Next ==
    \/ \E name \in ClientNames : GetTextConfig(name)
    \/ \E name \in ClientNames, body \in ClientBodies : PostTextConfig(name, body)
    \/ ListTextConfigs
    \/ \E name \in Names : CallGetAdContent(name)
    \/ \E name \in Names, content \in Contents : CallSaveAdContent(name, content)
    \/ \E i \in DOMAIN calls : saveTextPositionConfigSelect(calls[i])
    \/ \E i \in DOMAIN calls : saveTextPositionConfigUpdate(calls[i])
    \/ \E i \in DOMAIN calls : saveTextPositionConfigInsert(calls[i])
    \/ \E i \in DOMAIN calls : saveAdContentSelect(calls[i])
    \/ \E i \in DOMAIN calls : saveAdContentUpdate(calls[i])
    \/ \E i \in DOMAIN calls : saveAdContentInsert(calls[i])
    \/ \E i \in DOMAIN calls : dbError(calls[i])

Spec == Init /\ [][Next]_vars

\* ------------------------------------------------------ the preview canvas
\* the form contents and the layout configs the generator hands the renderer:
\* no config, the stored default, a saved config, and the working copies the
\* position editor produces from them
Forms == {defaultContent, ContentA}

ConfigBothCoords ==
    [defaultConfig EXCEPT
        !.raceName = ("center" :> 960) @@ @,
        !.numberOfRaces = ("left" :> 50) @@ @]

ConfigCentered ==
    [ConfigBothCoords EXCEPT !.raceName.alignment = "center",
                             !.numberOfRaces.alignment = "left"]

ConfigRight == [defaultConfig EXCEPT !.day.alignment = "right"]

ConfigFonts ==
    [defaultConfig EXCEPT !.raceName.fontFamily = "Montserrat-Regular",
                          !.day.fontFamily = "Montserrat-BlackItalic",
                          !.projectedPool.fontFamily = "Arial"]

RenderConfigs ==
    {Null, defaultConfig, ConfigA, ConfigBothCoords, ConfigCentered,
     ConfigCenterNoCenter, ConfigRight, ConfigFonts}

Canvas == [ctx |-> ctx, surface |-> surface, raised |-> FALSE]

Draw(g) ==
    /\ ctx' = g.ctx
    /\ surface' = g.surface

\* loadTemplate(imagePath): the promise is created and img.src is set
LoadTemplate ==
    /\ promise = "idle"
    /\ promise' = "pending"
    /\ UNCHANGED <<templateImage, ctx, surface, rendered, previous>>
    /\ UNCHANGED <<storeVars, clientVars>>

\* img.onload
ImgOnLoad ==
    /\ promise = "pending"
    /\ templateImage' = TemplateImage
    /\ Draw(renderTemplate(Canvas, templateImage'))
    /\ promise' = "resolved"
    /\ UNCHANGED <<rendered, previous>>
    /\ UNCHANGED <<storeVars, clientVars>>

\* faulty variant: the load failure is passed on to the caller
ImgOnErrorRejects ==
    /\ promise = "pending"
    /\ promise' = "rejected"
    /\ UNCHANGED <<templateImage, ctx, surface, rendered, previous>>
    /\ UNCHANGED <<storeVars, clientVars>>

\* img.onerror
ImgOnError ==
    /\ promise = "pending"
    /\ Draw(createFallbackTemplate(Canvas))
    /\ promise' = "resolved"
    /\ UNCHANGED <<templateImage, rendered, previous>>
    /\ UNCHANGED <<storeVars, clientVars>>

\* the effect of a renderWithText(formData, textConfig) call on the canvas
Rendering(formData, textConfig) ==
    /\ LET g == renderWithText(Canvas, templateImage, formData, textConfig)
       IN  /\ Draw(g)
           /\ rendered' =
                [called |-> TRUE, formData |-> formData,
                 textConfig |-> textConfig,
                 repeat |-> /\ rendered.called
                            /\ rendered.formData = formData
                            /\ rendered.textConfig = textConfig,
                 raised |-> g.raised]
    /\ previous' = surface

\* canvasRenderer.renderWithText(formData, textConfig): the generator has a
\* renderer only after loadTemplate has resolved
RenderWithText(formData, textConfig) ==
    /\ promise = "resolved"
    /\ Rendering(formData, textConfig)
    /\ UNCHANGED <<templateImage, promise>>
    /\ UNCHANGED <<storeVars, clientVars>>

CanvasNext ==
    \/ LoadTemplate
    \/ ImgOnLoad
    \/ ImgOnError
    \/ \E formData \in Forms, textConfig \in RenderConfigs :
          RenderWithText(formData, textConfig)

CanvasInit == Init /\ workload = "text"

SpecCanvas == CanvasInit /\ [][CanvasNext]_vars

\* ------------------------------------------------------ the generator page
\* The page is the only client of its store.  A request of the page is served
\* in one step: its GET of a name with a record is a single select, and its
\* seeding GET is over before the editor is shown and a POST can be made.
\* The operator works on a page whose initialization has ended, and waits for
\* the page to re-render before the next input; requests stay in flight
\* across the operator's inputs.
LoadingFonts == Status("Loading fonts...", "loading")
LoadingTemplate == Status("Loading template...", "loading")
Ready == Status("Ready", "ready")
ErrorLoading == Status("Error loading template", "error")

clientStoreFrame ==
    UNCHANGED <<adContents, nextAdId, calls, started, resp, last, workload>>

\* initializeCanvas() up to await loader.loadFonts()
InitializeCanvas ==
    /\ page.init = "mount"
    /\ page' = [page EXCEPT !.status = LoadingFonts, !.init = "fonts"]
    /\ \E path \in FontPaths : loader' = loadFonts(path)
    /\ UNCHANGED <<hasUnsavedChanges, query, mutations, effects, edits, posted>>
    /\ UNCHANGED <<storeVars, canvasVars>>

\* loadFonts() resumes after its await
LoadFontsResume ==
    /\ loader.promise = "pending"
    /\ loader' = loadFontsResume(loader)
    /\ UNCHANGED <<page, hasUnsavedChanges, query, mutations, effects, edits, posted>>
    /\ UNCHANGED <<storeVars, canvasVars>>

\* initializeCanvas() from setFontLoader(loader) to await
\* renderer.loadTemplate(...), or its catch
InitFontsLoaded ==
    /\ page.init = "fonts"
    /\ \/ /\ loader.promise = "resolved"
          /\ page' = [page EXCEPT !.fontLoader = TRUE, !.status = LoadingTemplate,
                                  !.init = "template"]
          /\ effects' = effects \cup Triggered({"fontLoader"})
          /\ promise = "idle"
          /\ promise' = "pending"
       \/ /\ loader.promise = "rejected"
          /\ page' = [page EXCEPT !.status = ErrorLoading, !.init = "failed"]
          /\ UNCHANGED <<effects, promise>>
    /\ UNCHANGED <<templateImage, ctx, surface, rendered, previous>>
    /\ UNCHANGED <<hasUnsavedChanges, loader, query, mutations, edits, posted>>
    /\ UNCHANGED storeVars

\* faulty variant: the status is not set once the template has loaded
InitTemplateLoadedNoStatus ==
    /\ page.init = "template"
    /\ promise = "resolved"
    /\ page' = [page EXCEPT !.canvasRenderer = TRUE, !.init = "done"]
    /\ effects' = effects \cup Triggered({"canvasRenderer"})
    /\ UNCHANGED <<hasUnsavedChanges, loader, query, mutations, edits, posted>>
    /\ UNCHANGED <<storeVars, canvasVars>>

\* initializeCanvas() from setCanvasRenderer(renderer) to its end, or its
\* catch
InitTemplateLoaded ==
    /\ page.init = "template"
    /\ \/ /\ promise = "resolved"
          /\ page' = [page EXCEPT !.canvasRenderer = TRUE, !.status = Ready,
                                  !.init = "done"]
          /\ effects' = effects \cup Triggered({"canvasRenderer"})
       \/ /\ promise = "rejected"
          /\ page' = [page EXCEPT !.status = ErrorLoading, !.init = "failed"]
          /\ UNCHANGED effects
    /\ UNCHANGED <<hasUnsavedChanges, loader, query, mutations, edits, posted>>
    /\ UNCHANGED <<storeVars, canvasVars>>

\* the query function's GET /api/text-config/default is answered: the
\* record's config, the default after seeding it, or an error
ServeGet ==
    /\ query.state = "fetching"
    /\ now' = now + 1
    /\ LET found == selectByName(textPositionConfigs, "default")
           Answer(data) ==
               /\ query' = [data |-> data, state |-> "idle"]
               /\ effects' = IF data # query.data
                             THEN effects \cup Triggered({"configData"})
                             ELSE effects
       IN  \/ /\ found = {}
              /\ textPositionConfigs' =
                   textPositionConfigs \cup {textInsertRow("default", defaultConfig)}
              /\ nextTextId' = nextTextId + 1
              /\ Answer(defaultConfig)
           \/ /\ \E record \in found : Answer(recordConfig(record))
              /\ UNCHANGED <<textPositionConfigs, nextTextId>>
           \/ /\ query' = [query EXCEPT !.state = "idle"]
              /\ UNCHANGED <<textPositionConfigs, nextTextId, effects>>
    /\ clientStoreFrame
    /\ UNCHANGED <<page, hasUnsavedChanges, loader, mutations, edits, posted>>
    /\ UNCHANGED canvasVars

\* a POST /api/text-config/default of saveConfigMutation is answered: 400,
\* 500, or 200 after the upsert; onSuccess invalidates the query, which
\* fetches again
ServePost(body) ==
    /\ body \in mutations
    /\ mutations' = mutations \ {body}
    /\ now' = now + 1
    /\ LET found == selectByName(textPositionConfigs, "default")
       IN  \/ /\ ~textConfigSchema(body)
              /\ UNCHANGED <<textPositionConfigs, nextTextId, query>>
           \/ /\ textConfigSchema(body)
              /\ UNCHANGED <<textPositionConfigs, nextTextId, query>>
           \/ /\ textConfigSchema(body)
              /\ found # {}
              /\ textPositionConfigs' =
                   {IF r.name = "default"
                    THEN textUpdateRow(r, safeParseData(body), now')
                    ELSE r : r \in textPositionConfigs}
              /\ query' = [query EXCEPT !.state = "fetching"]
              /\ UNCHANGED nextTextId
           \/ /\ textConfigSchema(body)
              /\ found = {}
              /\ textPositionConfigs' =
                   textPositionConfigs
                       \cup {textInsertRow("default", safeParseData(body))}
              /\ nextTextId' = nextTextId + 1
              /\ query' = [query EXCEPT !.state = "fetching"]
    /\ clientStoreFrame
    /\ UNCHANGED <<page, hasUnsavedChanges, loader, effects, edits, posted>>
    /\ UNCHANGED canvasVars

\* useEffect(() => { if (configData) setTextConfig(configData) }, [configData])
ConfigEffect ==
    /\ "config" \in effects
    /\ IF query.data # Null
       THEN /\ page' = [page EXCEPT !.textConfig = query.data]
            /\ effects' = (effects \ {"config"}) \cup Triggered({"textConfig"})
       ELSE /\ effects' = effects \ {"config"}
            /\ UNCHANGED page
    /\ UNCHANGED <<hasUnsavedChanges, loader, query, mutations, edits, posted>>
    /\ UNCHANGED <<storeVars, canvasVars>>

\* the render effect: renderWithText once the renderer, the font loader and
\* the config are there
RenderEffect ==
    /\ effects = {"render"}
    /\ effects' = {}
    /\ IF page.canvasRenderer /\ page.fontLoader /\ page.textConfig # Null
       THEN /\ Rendering(page.formData, page.textConfig)
            /\ page' = [page EXCEPT !.status =
                            IF rendered'.raised
                            THEN Status("Render error", "error")
                            ELSE Ready]
       ELSE UNCHANGED <<page, ctx, surface, rendered, previous>>
    /\ UNCHANGED <<templateImage, promise>>
    /\ UNCHANGED <<hasUnsavedChanges, loader, query, mutations, edits, posted>>
    /\ UNCHANGED storeVars

\* the operator uses a control of the editor: handleFieldChange
HandleFieldChange(e) ==
    /\ effects = {}
    /\ page.init \in {"done", "failed"}
    /\ page.textConfig # Null
    /\ edits < MaxEdits
    /\ edits' = edits + 1
    /\ page' = [page EXCEPT !.textConfig =
                    handleFieldChange(@, e.fieldKey, e.change)]
    /\ hasUnsavedChanges' = TRUE
    /\ effects' = Triggered({"textConfig"})
    /\ UNCHANGED <<loader, query, mutations, posted>>
    /\ UNCHANGED <<storeVars, canvasVars>>

\* the operator clicks Save: handleSave -> saveConfigMutation.mutate(config)
HandleSave ==
    /\ effects = {}
    /\ page.init \in {"done", "failed"}
    /\ page.textConfig # Null
    /\ hasUnsavedChanges
    /\ mutations' = mutations \cup {page.textConfig}
    /\ posted' = page.textConfig
    /\ hasUnsavedChanges' = FALSE
    /\ UNCHANGED <<page, loader, query, effects, edits>>
    /\ UNCHANGED <<storeVars, canvasVars>>

\* the operator changes the ad content form
ChangeForm(content) ==
    /\ effects = {}
    /\ page.init \in {"done", "failed"}
    /\ content # page.formData
    /\ page' = [page EXCEPT !.formData = content]
    /\ effects' = Triggered({"formData"})
    /\ UNCHANGED <<hasUnsavedChanges, loader, query, mutations, edits, posted>>
    /\ UNCHANGED <<storeVars, canvasVars>>

\* the operator clicks the download button: handleDownload
HandleDownload ==
    /\ effects = {}
    /\ ~downloadDisabled(page.status)
    /\ \/ page' = [page EXCEPT !.status = Status("Downloaded", "ready")]
       \/ page' = [page EXCEPT !.status = Status("Download failed", "error")]
    /\ UNCHANGED <<hasUnsavedChanges, loader, query, mutations, effects, edits, posted>>
    /\ UNCHANGED <<storeVars, canvasVars>>

ClientNext ==
    \/ InitializeCanvas
    \/ LoadFontsResume
    \/ InitFontsLoaded
    \/ ImgOnLoad
    \/ ImgOnError
    \/ InitTemplateLoaded
    \/ ServeGet
    \/ \E body \in mutations : ServePost(body)
    \/ ConfigEffect
    \/ RenderEffect
    \/ \E e \in Edits : HandleFieldChange(e)
    \/ HandleSave
    \/ \E content \in Forms : ChangeForm(content)

ClientInit == Init /\ workload = "editor"

SpecClient == ClientInit /\ [][ClientNext]_vars

\* the page as it loads and is used without the layout editor
LoadNext ==
    \/ InitializeCanvas
    \/ LoadFontsResume
    \/ InitFontsLoaded
    \/ ImgOnLoad
    \/ ImgOnError
    \/ InitTemplateLoaded
    \/ ServeGet
    \/ ConfigEffect
    \/ RenderEffect
    \/ \E content \in Forms : ChangeForm(content)
    \/ HandleDownload

SpecLoad == ClientInit /\ [][LoadNext]_vars

\* the mount effect runs, the continuation of a settled promise runs, and the
\* browser fires one of the image's two events; the server and the operator
\* are under no obligation
SpecLoadFair ==
    /\ SpecLoad
    /\ WF_vars(InitializeCanvas)
    /\ WF_vars(LoadFontsResume)
    /\ WF_vars(InitFontsLoaded)
    /\ WF_vars(ImgOnLoad \/ ImgOnError)
    /\ WF_vars(InitTemplateLoaded)

\* ================================================================= claims
Ok(r) == r.status \in {"200", "fulfilled"}

Table(tbl) == IF tbl = "text" THEN textPositionConfigs ELSE adContents

TableAfter(tbl) == IF tbl = "text" THEN textPositionConfigs' ELSE adContents'

RowPayload(tbl, r) == IF tbl = "text" THEN r.config ELSE recordContent(r)

Default(tbl) == IF tbl = "text" THEN defaultConfig ELSE defaultContent

\* C1: saveAdContent(n, P) followed by getAdContent(n), with no other write
\* to n from the save's lookup on, returns the five fields of P, whether the
\* save inserted or updated.
C1_SaveThenGetRoundTrip ==
    (/\ resp.tbl = "ad" /\ resp.op = "get" /\ Ok(resp) /\ ~resp.seeded
     /\ resp.seen.by = "save" /\ resp.seen.clean)
    => \A f \in FieldKeys : resp.body[f] = resp.seen.payload[f]

\* the get follows a save that updated a record seeded before
C1_Witness ==
    /\ resp.tbl = "ad" /\ resp.op = "get" /\ Ok(resp) /\ ~resp.seeded
    /\ resp.seen.by = "save" /\ resp.seen.clean
    /\ resp.seen.prev.by = "seed"
    /\ resp.body = ContentA

\* C2: a get on a name with no record, run with no other write to the name,
\* returns the hardcoded default and leaves exactly one record holding it;
\* a following get with no write in between returns the same default and
\* the name still has exactly one record.
C2_DefaultSeedingIdempotent ==
    /\ (/\ resp.op = "get" /\ Ok(resp) /\ resp.seeded /\ resp.clean)
       => /\ resp.body = Default(resp.tbl)
          /\ Cardinality(selectByName(Table(resp.tbl), resp.name)) = 1
          /\ \A r \in selectByName(Table(resp.tbl), resp.name) :
               RowPayload(resp.tbl, r) = Default(resp.tbl)
    /\ (/\ resp.op = "get" /\ Ok(resp) /\ ~resp.seeded
        /\ resp.seen.by = "seed" /\ resp.seen.clean)
       => /\ resp.body = Default(resp.tbl)
          /\ Cardinality(selectByName(Table(resp.tbl), resp.name)) = 1

\* the second get of a name seeded by the first
C2_Witness ==
    /\ resp.tbl = "text" /\ resp.op = "get" /\ resp.status = "200"
    /\ ~resp.seeded
    /\ resp.seen.by = "seed" /\ resp.seen.clean /\ resp.seen.prev.by = "none"
    /\ resp.body = defaultConfig

\* C3: no write of another call falls between a get's absence check and its
\* creation of the default, so the get never writes the default over a
\* payload a save has stored.
C3_SeedingAtomic ==
    (resp.op = "get" /\ Ok(resp) /\ resp.seeded)
    => (resp.clean /\ resp.seen.by = "none")

\* C4: the store holds at most one text-config record and at most one
\* ad-content record per name.
C4_NameUnique ==
    \A n \in Names :
        /\ Cardinality(selectByName(textPositionConfigs, n)) <= 1
        /\ Cardinality(selectByName(adContents, n)) <= 1

\* C5: once every save to a name has completed, a get on the name returns
\* the payload of the save whose write committed last.
C5_LastWriteWins ==
    (/\ resp.op = "get" /\ Ok(resp) /\ ~resp.seeded
     /\ resp.quiet /\ resp.seen.by = "save")
    => resp.body = resp.seen.payload

\* C6: after two sequential POSTs to /api/text-config/{name} whose payloads
\* differ in a fontSize, a GET on the name answers the second payload, and
\* the differing fontSize is the second one's.
C6_SequentialPostsLastWins ==
    (/\ resp.tbl = "text" /\ resp.op = "get" /\ ~resp.seeded
     /\ resp.status # "500"
     /\ resp.seen.by = "save" /\ resp.seen.clean
     /\ resp.seen.prev.by = "save" /\ resp.seen.prev.clean
     /\ \E f \in FieldKeys :
          resp.seen.prev.payload[f].fontSize # resp.seen.payload[f].fontSize)
    => /\ resp.status = "200"
       /\ resp.body = resp.seen.payload
       /\ \A f \in FieldKeys :
            resp.seen.prev.payload[f].fontSize # resp.seen.payload[f].fontSize
            => resp.body[f].fontSize # resp.seen.prev.payload[f].fontSize

\* POST ConfigA, POST ConfigB, GET
C6_Witness ==
    /\ resp.tbl = "text" /\ resp.op = "get" /\ resp.status = "200"
    /\ resp.seen.by = "save" /\ resp.seen.clean
    /\ resp.seen.prev.by = "save" /\ resp.seen.prev.clean
    /\ resp.seen.prev.payload = ConfigA
    /\ resp.body = ConfigB

\* a payload with a fontSize outside [8, 300] or a color that is not # and
\* six hex digits
BadSizeOrColor(cfg) ==
    \E f \in FieldKeys \cap DOMAIN cfg :
        \/ cfg[f].fontSize < 8
        \/ cfg[f].fontSize > 300
        \/ ~colorRegex(cfg[f].color)

\* the body of the POST to /api/text-config that arrives in this step
PostArrives(body) ==
    /\ started' = started + 1
    /\ \/ /\ resp'.tbl = "text" /\ resp'.op = "save" /\ resp'.req = body
       \/ \E i \in DOMAIN calls' \ DOMAIN calls :
            /\ calls'[i].tbl = "text" /\ calls'[i].op = "save"
            /\ calls'[i].payload = body

\* C7: a POST to /api/text-config/{name} of a payload with a fontSize below
\* 8 or above 300 or a color not matching the pattern is answered 400, and
\* the store is the same after the call as before it.
C7_InvalidPostRejected ==
    [][\A body \in PostBodies :
         (PostArrives(body) /\ BadSizeOrColor(body))
         => /\ resp'.status = "400"
            /\ textPositionConfigs' = textPositionConfigs
            /\ adContents' = adContents
            /\ calls' = calls]_vars

\* a rejected POST on a store that holds a record
C7_Witness ==
    /\ resp.tbl = "text" /\ resp.op = "save" /\ resp.status = "400"
    /\ BadSizeOrColor(resp.req)
    /\ textPositionConfigs # {}

\* C8: every persisted ad-content record has five non-empty strings.
C8_PersistedContentNonEmpty ==
    \A r \in adContents : adContentSchema(recordContent(r))

\* C9: GET /api/text-config/{name} never answers 404: unless the storage
\* call fails, the answer is 200 with a TextLayoutConfig.
C9_GetNeverNotFound ==
    (resp.tbl = "text" /\ resp.op = "get")
    => /\ resp.status # "404"
       /\ resp.status # "500"
          => (resp.status = "200" /\ textConfigSchema(resp.body))

\* a GET answered from a record a POST stored
C9_Witness ==
    /\ resp.tbl = "text" /\ resp.op = "get" /\ resp.status = "200"
    /\ ~resp.seeded /\ resp.seen.by = "save"

\* the ids and creation times of the records of a name
Identity(tbl, rows) == {<<r.id, r.createdAt>> : r \in rows}

\* C10: a save whose lookup finds a record leaves the name's number of
\* records, their ids and createdAt unchanged, replaces the payload and
\* sets updatedAt to the time the save read; a save whose lookup finds none
\* adds exactly one record with the name and payload, createdAt and
\* updatedAt both the creation time.  A save that no other write overlaps
\* takes the first branch exactly when the name has a record.
C10_SaveIsUpsert ==
    [][\A i \in DOMAIN calls \ DOMAIN calls' :
         LET c == calls[i]
             before == selectByName(Table(c.tbl), c.name)
             after == selectByName(TableAfter(c.tbl), c.name)
         IN  Ok(resp') =>
               /\ c.clean => (c.pc = "update" <=> before # {})
               /\ TableAfter(c.tbl) \ after = Table(c.tbl) \ before
               /\ c.pc = "update" =>
                    /\ Cardinality(after) = Cardinality(before)
                    /\ Identity(c.tbl, after) = Identity(c.tbl, before)
                    /\ c.stamp <= now
                    /\ \A r \in after :
                         /\ RowPayload(c.tbl, r) = c.payload
                         /\ r.updatedAt = c.stamp
               /\ c.pc = "insert" =>
                    /\ before \subseteq after
                    /\ Cardinality(after \ before) = 1
                    /\ \A r \in after \ before :
                         /\ r.name = c.name
                         /\ RowPayload(c.tbl, r) = c.payload
                         /\ r.createdAt = now /\ r.updatedAt = now
                         /\ \A q \in Table(c.tbl) : q.id # r.id]_vars

\* a POST that updated a record created earlier
C10_Witness ==
    /\ resp.tbl = "text" /\ resp.op = "save" /\ resp.status = "200"
    /\ resp.body.config = resp.req
    /\ resp.body.updatedAt > resp.body.createdAt

\* C11: records are never deleted.  In every step, each name that has a record
\* in a table before the step has one after it, and a get or a save that
\* completes for a name leaves a record for that name.
C11_RecordsNeverDeleted ==
    [][/\ \A tbl \in Tables, n \in Names :
             selectByName(Table(tbl), n) # {}
                 => selectByName(TableAfter(tbl), n) # {}
       /\ (Ok(resp') /\ resp'.op \in {"get", "save"})
             => selectByName(TableAfter(resp'.tbl), resp'.name) # {}]_vars

\* a list call answers after a record was updated in place
C11_Witness ==
    /\ resp.op = "list" /\ Ok(resp)
    /\ \E r \in textPositionConfigs : r.updatedAt > r.createdAt /\ r \in resp.body

\* C12: rendering is idempotent.  When renderWithText is called twice in a row
\* with the same content and layout, the bitmap after the second call equals
\* the bitmap after the first, with the template image and with the fallback.
C12_RenderIdempotent ==
    rendered.repeat => surface = previous

\* the config the last renderWithText call drew with
RenderedConfig ==
    IF rendered.textConfig = Null THEN rendererDefaultConfig ELSE rendered.textConfig

\* the fillText operations on the bitmap, in drawing order, from position i on
RECURSIVE TextOps(_, _)
TextOps(ops, i) ==
    IF i > Len(ops) THEN <<>>
    ELSE IF ops[i].op = "fillText" THEN <<ops[i]>> \o TextOps(ops, i + 1)
    ELSE TextOps(ops, i + 1)

\* the placeholder: a fill of the whole canvas
Placeholder(ops) ==
    /\ Len(ops) >= 1
    /\ ops[1].op = "fillRect"
    /\ ops[1].x = 0 /\ ops[1].y = 0
    /\ ops[1].w = CanvasWidth /\ ops[1].h = CanvasHeight

\* C13: a template image that fails to load is never surfaced as a failure.
\* The promise of loadTemplate is never rejected; once it has resolved without
\* an image the bitmap starts with the placeholder filling the canvas's own
\* width and height; and every renderWithText call after that returns without
\* raising, its texts drawn over the placeholder.
C13_LoadFailureNotSurfaced ==
    /\ promise # "rejected"
    /\ (promise = "resolved" /\ templateImage = Null) => Placeholder(surface)
    /\ rendered.called => ~rendered.raised
    /\ (rendered.called /\ templateImage = Null) =>
          \A f \in FieldKeys :
              anchor(RenderedConfig[f]) # <<>> =>
                  \E i \in 2..Len(surface) :
                      /\ surface[i].op = "fillText"
                      /\ surface[i].text = fieldText(rendered.formData, f)

\* the image failed to load and renderWithText has been called twice since
C13_Witness ==
    /\ promise = "resolved" /\ templateImage = Null
    /\ rendered.called /\ rendered.repeat
    /\ Len(TextOps(surface, 1)) = 6

\* the coordinate a record's alignment does not call for
OtherCoordinate(p) ==
    CASE p.alignment = "center" -> {"left"}
      [] p.alignment = "left" -> {"center"}
      [] OTHER -> {}

WithoutOtherCoordinate(config) ==
    [f \in DOMAIN config |->
        [k \in DOMAIN config[f] \ OtherCoordinate(config[f]) |-> config[f][k]]]

\* what a call drew over the background
DrawnOver(ops, image) ==
    SubSeq(ops, IF image # Null THEN 2 ELSE 3, Len(ops))

\* C14: the horizontal anchor of a text is the record's center when its
\* alignment is "center" and the record's left when its alignment is "left",
\* and the other coordinate has no effect: the call draws the same operations
\* as it does for the config with the other coordinate of every record removed.
C14_AnchorFollowsAlignment ==
    rendered.called =>
        /\ \A f \in FieldKeys :
              LET p == RenderedConfig[f]
                  key == IF p.alignment = "center" THEN "center" ELSE "left"
              IN  (p.alignment \in {"left", "center"} /\ key \in DOMAIN p) =>
                      \E i \in 1..Len(surface) :
                          /\ surface[i].op = "fillText"
                          /\ surface[i].text = fieldText(rendered.formData, f)
                          /\ surface[i].x = p[key]
                          /\ surface[i].y = p.bottom
                          /\ surface[i].textAlign = p.alignment
        /\ DrawnOver(surface, templateImage) =
              DrawnOver(renderWithText(newCanvas, templateImage, rendered.formData,
                                       WithoutOtherCoordinate(RenderedConfig)).surface,
                        templateImage)

\* a config whose records carry both coordinates has been drawn
C14_Witness ==
    /\ rendered.called
    /\ rendered.textConfig = ConfigCentered
    /\ \E i \in 1..Len(surface) :
          /\ surface[i].op = "fillText"
          /\ surface[i].text = rendered.formData.raceName
          /\ surface[i].x = 960

\* the coordinate the alignment of a record calls for is present
HasRequiredCoordinate(p) ==
    /\ p.alignment = "left" => "left" \in DOMAIN p
    /\ p.alignment = "center" => "center" \in DOMAIN p

\* C15: every TextStyleRecord of every persisted text config carries the
\* coordinate its alignment requires: left when the alignment is "left",
\* center when it is "center".
C15_RequiredCoordinatePresent ==
    \A r \in textPositionConfigs :
        \A f \in FieldKeys : HasRequiredCoordinate(r.config[f])

\* the strings of a form content as the preview shows them
ShownText(formData) ==
    [raceName |-> formData.raceName,
     prizeAmount |-> "$" \o formData.prizeAmount,
     projectedPool |-> "$" \o formData.projectedPool,
     day |-> formData.day,
     numberOfRaces |-> formData.numberOfRaces]

\* the field has an anchor in the config last drawn
Anchored(f) == anchor(RenderedConfig[f]) # <<>>

cssFontStyle(font) == IF font[1] = "italic" THEN "italic" ELSE "normal"

cssFontWeight(font) ==
    LET w == IF font[1] = "italic" THEN font[2] ELSE font[1]
    IN  IF w \in {"bold", "900"} THEN w ELSE "normal"

cssFontSize(font) ==
    LET i == CHOOSE j \in 1..Len(font) : font[j] \notin {"italic", "bold", "900"}
    IN  font[i]

\* the weight and style the font table gives a family name
FontTable(fontFamily) ==
    CASE fontFamily = "Montserrat-Regular" -> <<"normal", "normal">>
      [] fontFamily = "Montserrat-Bold" -> <<"bold", "normal">>
      [] fontFamily = "Montserrat-BoldItalic" -> <<"bold", "italic">>
      [] fontFamily = "Montserrat-Black" -> <<"900", "normal">>
      [] OTHER -> <<"normal", "normal">>

\* C17: every text is drawn in the weight and style the font table gives the
\* family name of its record (Regular normal/normal, Bold bold/normal,
\* BoldItalic bold/italic, Black 900/normal, any other name normal/normal), at
\* the size of its record, and no call raises.
C17_FontTable ==
    rendered.called =>
        /\ ~rendered.raised
        /\ LET drawn == DrawnOver(surface, templateImage)
               fields ==
                   SelectSeq(<<"raceName", "prizeAmount", "projectedPool", "day",
                               "numberOfRaces">>, Anchored)
           IN  \A k \in 1..Len(drawn) :
                   LET p == RenderedConfig[fields[k]]
                   IN  /\ <<cssFontWeight(drawn[k].font),
                             cssFontStyle(drawn[k].font)>> = FontTable(p.fontFamily)
                       /\ cssFontSize(drawn[k].font) = ToString(p.fontSize) \o "px"

\* texts in Montserrat-Regular, in a family outside the table and in
\* Montserrat-Black are on the bitmap
C17_Witness ==
    /\ rendered.called
    /\ rendered.textConfig = ConfigFonts
    /\ LET drawn == DrawnOver(surface, templateImage)
       IN  /\ Len(drawn) = 5
           /\ cssFontWeight(drawn[1].font) = "normal"
           /\ cssFontWeight(drawn[2].font) = "900"
           /\ cssFontSize(drawn[4].font) = "48px"

\* C18: a GET /api/text-config/{name} that finds no record answers 200 with
\* a config whose raceName style is bottom 200, left 100, alignment "left",
\* fontFamily "Montserrat-BoldItalic", fontSize 60, color "#1fd87b"; the
\* config it answers and seeds equals the default the renderer uses when it
\* is given no config and the default the editor's reset restores.
C18_DefaultsAgree ==
    /\ (resp.tbl = "text" /\ resp.op = "get" /\ resp.seeded
            /\ resp.status # "500") =>
          /\ resp.status = "200"
          /\ resp.body.raceName =
                [bottom |-> 200, left |-> 100, alignment |-> "left",
                 fontFamily |-> "Montserrat-BoldItalic", fontSize |-> 60,
                 color |-> <<"#", "1", "f", "d", "8", "7", "b">>]
          /\ resp.body = rendererDefaultConfig
          /\ resp.body = resetDefaultConfig
    /\ \A n \in Names :
          last["text"][n].by = "seed" =>
              /\ last["text"][n].payload = rendererDefaultConfig
              /\ last["text"][n].payload = resetDefaultConfig

\* the store was empty and GET /api/text-config/default has answered
C18_Witness ==
    /\ resp.tbl = "text" /\ resp.op = "get" /\ resp.name = "default"
    /\ resp.seeded /\ resp.status = "200"
    /\ started = 1
    /\ \E r \in textPositionConfigs :
          textPositionConfigs = {r} /\ r.config = resp.body

\* C19: the routes keep validation errors and storage errors apart.  A POST
\* to /api/text-config/{name} is answered 400 exactly when its payload fails
\* the schema, and then no storage statement was run for it; it is answered
\* 500 exactly when the payload is valid and a storage statement threw.  A
\* GET is answered 500 exactly when a storage statement threw.
C19_ErrorsKeptApart ==
    [][/\ (resp'.tbl = "text" /\ resp'.op = "save") =>
             /\ resp'.status = "400" <=> ~textConfigSchema(resp'.req)
             /\ resp'.status = "500" <=>
                    (textConfigSchema(resp'.req) /\ resp'.threw)
             /\ resp'.status = "400" =>
                    /\ ~resp'.threw
                    /\ calls' = calls
                    /\ textPositionConfigs' = textPositionConfigs
       /\ (resp'.tbl = "text" /\ resp'.op = "get") =>
             (resp'.status = "500" <=> resp'.threw)]_vars

\* a valid POST met a storage failure on a store that holds a record
C19_Witness ==
    /\ resp.tbl = "text" /\ resp.op = "save"
    /\ resp.status = "500" /\ resp.threw
    /\ textConfigSchema(resp.req)
    /\ textPositionConfigs # {}

\* C20: every persisted text config has exactly the five keys raceName,
\* prizeAmount, projectedPool, day and numberOfRaces; a POST whose body lacks
\* one of them is answered 400, and the keys of a body outside the five are
\* not persisted.
C20_ExactlyFiveKeys ==
    /\ \A r \in textPositionConfigs : DOMAIN r.config = FieldKeys
    /\ (resp.tbl = "text" /\ resp.op = "save"
            /\ ~(FieldKeys \subseteq DOMAIN resp.req)) =>
          resp.status = "400"
    /\ (resp.tbl = "text" /\ resp.op = "save" /\ resp.status = "200") =>
          DOMAIN resp.body.config = FieldKeys

\* the generator page's POST of the body with a sixth key was accepted (its
\* other valid body has no raceName of 72px), and the record holds five keys
C20_Witness ==
    /\ workload = "editor"
    /\ resp.tbl = "text" /\ resp.op = "save" /\ resp.status = "200"
    /\ resp.body.config.raceName.fontSize = 72
    /\ resp.body \in textPositionConfigs

\* C22: get writes only for a name with no record.  A get that arrives for a
\* name that has a record is answered from that record in the same step, with
\* no statement left to run and the whole store as it was; and a get whose
\* seeding ran undisturbed made the first write to its name, so over a
\* sequential run a name is seeded at most once.
C22_GetWritesOnlyWhenAbsent ==
    [][/\ \A i \in DOMAIN calls' \ DOMAIN calls :
             calls'[i].op = "get" =>
                 selectByName(Table(calls'[i].tbl), calls'[i].name) = {}
       /\ (started' = started + 1 /\ resp'.op = "get") =>
             /\ textPositionConfigs' = textPositionConfigs
             /\ adContents' = adContents
             /\ nextTextId' = nextTextId /\ nextAdId' = nextAdId
             /\ calls' = calls
       /\ \A tbl \in Tables, n \in Names :
             (last'[tbl][n].by = "seed" /\ last'[tbl][n].clean) =>
                 last'[tbl][n].prev.by = "none"]_vars

\* a second get of a name finds the record the first get seeded
C22_Witness ==
    /\ resp.op = "get" /\ Ok(resp) /\ ~resp.seeded
    /\ resp.seen.by = "seed"
    /\ resp.body = Default(resp.tbl)

\* C23: a step changes the records of at most one name of one table, the name
\* and table of the call that acts in it: a get or save on one name leaves
\* the records of every other name as they were, and a call on one table
\* leaves the other table as it was.
C23_OtherRecordsUntouched ==
    [][\A tbl \in Tables, n \in Names :
         selectByName(TableAfter(tbl), n) # selectByName(Table(tbl), n)
             => (resp'.tbl = tbl /\ resp'.name = n)]_vars

\* a save has updated the record of one name while the table holds a record
\* of the other name
C23_Witness ==
    /\ resp.op = "save" /\ Ok(resp)
    /\ resp.body.updatedAt > resp.body.createdAt
    /\ \E n \in Names \ {resp.name} : selectByName(Table(resp.tbl), n) # {}

\* C21: every layout edit is written back at once: the step in which the
\* operator changes a field of the text position editor also sends the
\* updated config to the store, with no further operator action.
C21_EditWrittenBack ==
    [][edits' = edits + 1 => page'.textConfig \in mutations']_vars

\* C24: the preview is drawn only once the renderer, the font loader and the
\* layout config are all there; and once they are and the effects have run,
\* the last renderWithText call was made with the current form content and
\* the current working copy, whatever changes of either came before.
C24_PreviewFollowsWorkingCopy ==
    /\ rendered.called =>
          page.canvasRenderer /\ page.fontLoader /\ page.textConfig # Null
    /\ (effects = {} /\ page.canvasRenderer /\ page.fontLoader
            /\ page.textConfig # Null) =>
          /\ rendered.called
          /\ rendered.formData = page.formData
          /\ rendered.textConfig = page.textConfig

\* an edit of the layout and a change of the content have both been rendered
C24_Witness ==
    /\ effects = {}
    /\ edits > 0
    /\ page.formData # defaultContent
    /\ page.textConfig # query.data
    /\ rendered.called
    /\ rendered.formData = page.formData
    /\ rendered.textConfig = page.textConfig

\* C25: once the working copy of the layout config has been loaded, only an
\* operator edit changes it: no answer of the server replaces it.
C25_OnlyEditsChangeWorkingCopy ==
    [][(page.textConfig # Null /\ page'.textConfig # page.textConfig)
           => edits' = edits + 1]_vars

\* the config of the stored "default" record, the last one the store accepted
Accepted == {recordConfig(r) : r \in selectByName(textPositionConfigs, "default")}

\* C26: with no save in flight, the unsaved-changes flag of the editor is
\* false only when the working copy equals the last config the store
\* accepted; a failed or rejected save does not leave it cleared.
C26_FlagClearedOnlyWhenSaved ==
    (page.textConfig # Null /\ mutations = {} /\ ~hasUnsavedChanges)
        => page.textConfig \in Accepted

\* C27: every config the operator saves from the editor, made from the valid
\* stored config by the editor's controls, satisfies textConfigSchema, so the
\* save is not rejected with a validation error.
C27_EditorConfigsAccepted ==
    posted # Null => textConfigSchema(posted)

\* C28: every font family the editor offers has a case of its own in
\* getFontString: whatever family the operator has selected, the preview does
\* not draw it through the default branch.
C28_SelectableFontsHaveEntries ==
    rendered.called =>
        \A f \in FieldKeys :
            rendered.textConfig[f].fontFamily \in FONT_OPTIONS \cup fontOptions
                => rendered.textConfig[f].fontFamily \in fontCases

\* C29: loadFonts never rejects, and once it has completed isFontsLoaded() is
\* true, whether the FontFace API is absent, the verification resolves, or
\* the verification throws; the page's font loader is always a loaded one.
C29_FontLoadingNeverFails ==
    /\ loader.promise # "rejected"
    /\ loader.promise = "resolved" => loader.fontsLoaded
    /\ page.fontLoader => loader.fontsLoaded

\* the verification threw, loadFonts has completed and the page went on
C29_Witness ==
    /\ loader.path = "verifyThrew"
    /\ loader.promise = "resolved"
    /\ loader.fontsLoaded
    /\ page.fontLoader

\* the status changes in this step
StatusChanges == page'.status # page.status

\* C30: initialization always leaves the loading status: from
\* "Initializing..." the status goes to "Loading fonts...", from there to
\* "Loading template...", from there to a ready or error status, and it does
\* eventually become ready or error, whether the template image loads or
\* fails; no download step is taken from a state whose status type is loading.
C30_InitLeavesLoading ==
    /\ [][/\ (StatusChanges /\ page.status = newPage.status)
                => page'.status = LoadingFonts
          /\ (StatusChanges /\ page.status = LoadingFonts)
                => page'.status = LoadingTemplate
          /\ (StatusChanges /\ page.status = LoadingTemplate)
                => page'.status.type \in {"ready", "error"}
          /\ page'.status.text \in {"Loading fonts...", "Loading template..."}
                => page.status.type = "loading"
          /\ (StatusChanges /\ page'.status.text \in {"Downloaded", "Download failed"})
                => page.status.type # "loading"]_vars
    /\ <>(page.status.type \in {"ready", "error"})

\* the template image failed to load, initialization has ended on the
\* fallback and the operator has downloaded the composite
C30_Witness ==
    /\ page.init = "done"
    /\ promise = "resolved"
    /\ templateImage = Null
    /\ page.status = Status("Downloaded", "ready")

====
